---- MODULE Spec2Model ----
(***************************************************************************)
(* JSON -> TOON conversion core of src/app.py: the encoder json_to_toon,   *)
(* the scalar formatter format_value, the line validator validate_toon and *)
(* the verifier verify_toon_roundtrip, driven as api_convert drives them.  *)
(*                                                                         *)
(* A Python str is a sequence of one-character strings; a JSON value is a  *)
(* tagged record; a dict is its insertion-ordered keys with their values.  *)
(***************************************************************************)
EXTENDS Integers, Sequences, FiniteSets, TLC

VARIABLES value, depth, text, verdict, pc

vars == <<value, depth, text, verdict, pc>>

(***************************************************************************)
(* Bounds of the model.                                                    *)
(***************************************************************************)
MaxStrLen == 2

MaxDepth == 2

MaxLines == 2

(***************************************************************************)
(* Characters and Python's str built-ins.                                  *)
(***************************************************************************)
NL == "\n"

QUOTE == "\""

BACKSLASH == "\\"

Alphabet == {"a", " ", ":", "|", "[", "]", "{", "}", QUOTE, BACKSLASH, NL, "-"}

\* c in s, for a one-character c
Contains(s, c) == \E i \in 1..Len(s) : s[i] = c

\* s[i:i+len(sub)] == sub
MatchAt(s, sub, i) ==
    /\ i + Len(sub) - 1 <= Len(s)
    /\ \A j \in 1..Len(sub) : s[i + j - 1] = sub[j]

\* sub in s
HasSub(s, sub) == \E i \in 1..(Len(s) + 1) : MatchAt(s, sub, i)

\* s.startswith(pre)
StartsWith(s, pre) == MatchAt(s, pre, 1)

\* s.endswith(suf)
EndsWith(s, suf) == Len(suf) <= Len(s) /\ MatchAt(s, suf, Len(s) - Len(suf) + 1)

\* the characters str.strip() removes
IsSpace(c) == c \in {" ", NL, "\t", "\r"}

RECURSIVE LStrip(_)
LStrip(s) == IF s # <<>> /\ IsSpace(Head(s)) THEN LStrip(Tail(s)) ELSE s

RECURSIVE RStrip(_)
RStrip(s) ==
    IF s # <<>> /\ IsSpace(s[Len(s)]) THEN RStrip(SubSeq(s, 1, Len(s) - 1)) ELSE s

Strip(s) == RStrip(LStrip(s))

\* s.strip('"\'')
RECURSIVE StripQuotes(_)
StripQuotes(s) ==
    IF s # <<>> /\ Head(s) \in {QUOTE, "'"} THEN StripQuotes(Tail(s))
    ELSE IF s # <<>> /\ s[Len(s)] \in {QUOTE, "'"}
         THEN StripQuotes(SubSeq(s, 1, Len(s) - 1))
         ELSE s

\* index of the first occurrence of sep in s at or after i, 0 if none
RECURSIVE FindFrom(_, _, _)
FindFrom(s, sep, i) ==
    IF i + Len(sep) - 1 > Len(s) THEN 0
    ELSE IF MatchAt(s, sep, i) THEN i
    ELSE FindFrom(s, sep, i + 1)

\* s.split(sep)
RECURSIVE Split(_, _)
Split(s, sep) ==
    LET i == FindFrom(s, sep, 1)
    IN  IF i = 0 THEN <<s>>
        ELSE <<SubSeq(s, 1, i - 1)>> \o Split(SubSeq(s, i + Len(sep), Len(s)), sep)

\* s.split(sep, 1)
Split1(s, sep) ==
    LET i == FindFrom(s, sep, 1)
    IN  IF i = 0 THEN <<s>>
        ELSE <<SubSeq(s, 1, i - 1), SubSeq(s, i + Len(sep), Len(s))>>

\* sep.join(parts)
RECURSIVE Join(_, _)
Join(parts, sep) ==
    IF parts = <<>> THEN <<>>
    ELSE IF Len(parts) = 1 THEN parts[1]
    ELSE parts[1] \o sep \o Join(Tail(parts), sep)

\* the concatenation of a sequence of sequences
RECURSIVE Flatten(_)
Flatten(ss) == IF ss = <<>> THEN <<>> ELSE Head(ss) \o Flatten(Tail(ss))

DigitChars == <<"0", "1", "2", "3", "4", "5", "6", "7", "8", "9">>

\* str(n) for an int n
RECURSIVE IntStr(_)
IntStr(n) ==
    IF n < 0 THEN <<"-">> \o IntStr(0 - n)
    ELSE IF n < 10 THEN <<DigitChars[n + 1]>>
    ELSE IntStr(n \div 10) \o <<DigitChars[(n % 10) + 1]>>

\* '  ' * indent
RECURSIVE IndentStr(_)
IndentStr(indent) == IF indent <= 0 THEN <<>> ELSE <<" ", " ">> \o IndentStr(indent - 1)

\* json.dumps(s) for a str s: double-quoted, with quote, backslash and the
\* control characters backslash-escaped
EscapeChar(c) ==
    IF c = QUOTE THEN <<BACKSLASH, QUOTE>>
    ELSE IF c = BACKSLASH THEN <<BACKSLASH, BACKSLASH>>
    ELSE IF c = NL THEN <<BACKSLASH, "n">>
    ELSE IF c = "\t" THEN <<BACKSLASH, "t">>
    ELSE IF c = "\r" THEN <<BACKSLASH, "r">>
    ELSE <<c>>

json_dumps_str(s) ==
    <<QUOTE>> \o Flatten([i \in 1..Len(s) |-> EscapeChar(s[i])]) \o <<QUOTE>>

(***************************************************************************)
(* The JSON data model, as json.load builds it.                            *)
(***************************************************************************)
Null == [tag |-> "null"]

Bool(b) == [tag |-> "bool", b |-> b]

Num(n) == [tag |-> "num", n |-> n]

Str(s) == [tag |-> "str", s |-> s]

Arr(items) == [tag |-> "arr", items |-> items]

Obj(keys, vals) == [tag |-> "obj", keys |-> keys, vals |-> vals]

\* isinstance(v, (str, int, float, bool, type(None)))
IsPrimitive(v) == v.tag \in {"null", "bool", "num", "str"}

\* isinstance(v, dict)
IsDict(v) == v.tag = "obj"

\* isinstance(v, list)
IsList(v) == v.tag = "arr"

\* bool(v): Python's truth value of a JSON value
Truthy(v) ==
    CASE v.tag = "null" -> FALSE
      [] v.tag = "bool" -> v.b
      [] v.tag = "num"  -> v.n # 0
      [] v.tag = "str"  -> v.s # <<>>
      [] v.tag = "arr"  -> v.items # <<>>
      [] v.tag = "obj"  -> v.keys # <<>>

(***************************************************************************)
(* format_value: the scalar formatter.                                     *)
(***************************************************************************)
\* format_value's list without the colon
FormatDelimsNoColon == {NL, QUOTE, "|", "[", "]", "{", "}"}

\* the characters that make format_value quote a str
FormatDelims == {NL, QUOTE, ":", "|", "[", "]", "{", "}"}

\* str(b).lower()
BoolStr(b) == IF b THEN <<"t", "r", "u", "e">> ELSE <<"f", "a", "l", "s", "e">>

NullStr == <<"n", "u", "l", "l">>

format_value(v) ==
    CASE v.tag = "null" -> NullStr
      [] v.tag = "bool" -> BoolStr(v.b)
      [] v.tag = "str"  ->
            IF \E c \in FormatDelims : Contains(v.s, c) THEN json_dumps_str(v.s) ELSE v.s
      [] v.tag = "num"  -> IntStr(v.n)
      \* json.dumps(value): the encoder passes a dict or a list only when empty
      [] v.tag = "arr"  -> <<"[", "]">>
      [] v.tag = "obj"  -> <<"{", "}">>

(***************************************************************************)
(* json_to_toon: the structural encoder.                                   *)
(***************************************************************************)
\* the separator of table columns
PIPE_SEP == <<" ", "|", " ">>

\* item.get(k, ''), for a dict item
DictGet(item, k) ==
    IF \E i \in 1..Len(item.keys) : item.keys[i] = k
    THEN item.vals[CHOOSE i \in 1..Len(item.keys) : item.keys[i] = k]
    ELSE Str(<<>>)

\* the table test without `len(item) > 0`
AllFlatDictsNoLen(data) ==
    \A i \in 1..Len(data) :
        /\ IsDict(data[i])
        /\ \A j \in 1..Len(data[i].vals) : IsPrimitive(data[i].vals[j])

\* all(isinstance(item, dict) and len(item) > 0 and
\*     all(isinstance(v, (str, int, float, bool, type(None))) for v in item.values())
\*     for item in data)
AllFlatDicts(data) ==
    \A i \in 1..Len(data) :
        /\ IsDict(data[i])
        /\ Len(data[i].keys) > 0
        /\ \A j \in 1..Len(data[i].vals) : IsPrimitive(data[i].vals[j])

\* all(isinstance(item, (str, int, float, bool, type(None))) for item in data)
AllPrimitive(data) == \A i \in 1..Len(data) : IsPrimitive(data[i])

\* the key of a dict entry as emitted: quoted if it holds ' ', ':' or a newline
KeyStr(key) ==
    IF Contains(key, " ") \/ Contains(key, ":") \/ Contains(key, NL)
    THEN <<QUOTE>> \o key \o <<QUOTE>>
    ELSE key

\* one cell of a table row: the text of item.get(k, '')
TableCell(item, k) ==
    LET val == DictGet(item, k)
    IN  CASE val.tag = "null" -> NullStr
          [] val.tag = "bool" -> BoolStr(val.b)
          [] val.tag = "str"  ->
                IF Contains(val.s, "|") \/ Contains(val.s, NL)
                THEN <<QUOTE>> \o val.s \o <<QUOTE>>
                ELSE val.s
          [] val.tag = "num"  -> IntStr(val.n)

\* the header and the rows of a table, each prefixed with prefix; the field
\* list is the first item's keys
TableLines(prefix, data) ==
    LET keys   == data[1].keys
        header == prefix \o Join(keys, PIPE_SEP)
        row(item) == prefix \o Join([j \in 1..Len(keys) |-> TableCell(item, keys[j])],
                                    PIPE_SEP)
    IN  <<header>> \o [i \in 1..Len(data) |-> row(data[i])]

\* which rendering json_to_toon chooses for a list reached directly
ListForm(data) ==
    IF data = <<>> THEN "empty"
    ELSE IF AllPrimitive(data) THEN "inline"
    ELSE IF AllFlatDicts(data) THEN "table"
    ELSE "dash"

\* whether a dict entry's value is rendered as a table under its key
EntryIsTable(val) == IsList(val) /\ AllFlatDicts(val.items)

\* the lines one item of a "regular" list contributes, given its rendering
DashItemLines(indent_str, item, item_str) ==
    IF (IsDict(item) \/ IsList(item)) /\ Truthy(item)
    THEN LET item_lines == Split(item_str, <<NL>>)
             kept == SelectSeq(item_lines, LAMBDA line : Strip(line) # <<>>)
         IN  <<indent_str \o <<"-">> >> \o
             [n \in 1..Len(kept) |-> indent_str \o <<" ", " ">> \o LStrip(kept[n])]
    ELSE <<indent_str \o <<"-", " ">> \o item_str>>

RECURSIVE json_to_toon(_, _)
json_to_toon(data, indent) ==
    LET indent_str == IndentStr(indent)
    IN  IF IsDict(data) THEN
            IF data.keys = <<>> THEN <<"{", "}">>
            ELSE
              LET entry(i) ==
                    LET key_str == KeyStr(data.keys[i])
                        val == data.vals[i]
                    IN  IF (IsDict(val) \/ IsList(val)) /\ Truthy(val)
                        THEN IF EntryIsTable(val)
                             THEN <<indent_str \o key_str \o <<":">> >> \o
                                  TableLines(indent_str \o <<" ", " ">>, val.items)
                             ELSE <<indent_str \o key_str \o <<":">>,
                                    json_to_toon(val, indent + 1)>>
                        ELSE <<indent_str \o key_str \o <<":", " ">> \o format_value(val)>>
              IN  Join(Flatten([i \in 1..Len(data.keys) |-> entry(i)]), <<NL>>)
        ELSE IF IsList(data) THEN
            CASE ListForm(data.items) = "empty"  -> <<"[", "]">>
              [] ListForm(data.items) = "inline" ->
                    <<"[">> \o
                    Join([i \in 1..Len(data.items) |-> format_value(data.items[i])],
                         <<",", " ">>) \o
                    <<"]">>
              [] ListForm(data.items) = "table"  ->
                    Join(TableLines(indent_str, data.items), <<NL>>)
              [] ListForm(data.items) = "dash"   ->
                    Join(Flatten([i \in 1..Len(data.items) |->
                                    DashItemLines(indent_str, data.items[i],
                                                  json_to_toon(data.items[i], indent))]),
                         <<NL>>)
        ELSE format_value(data)

(***************************************************************************)
(* validate_toon: the line-oriented validator.  A verdict is the returned  *)
(* tuple (is_valid, error_message); the line number an f-string puts into  *)
(* the message is kept beside its fixed text.                              *)
(***************************************************************************)
None == "None"

Ok == [valid |-> TRUE, message |-> None, line |-> 0]

Fail(msg, n) == [valid |-> FALSE, message |-> msg, line |-> n]

MSG_EMPTY_DATA == "TOON data is empty"

MSG_EMPTY_COLUMNS == "Invalid tabular format at line {i+1}: empty columns"

MSG_EMPTY_ITEM == "Empty list item at line {i+1}"

MSG_EMPTY_KEY == "Empty key at line {i+1}"

MSG_EMPTY_VALUES == "Invalid array format at line {i+1}: empty values"

MSG_EMPTY_OUTPUT == "TOON output is empty but input had data"

MSG_NO_KEYS == "No keys found in TOON output"

\* len(line) - len(line.lstrip())
IndentOf(line) == Len(line) - Len(LStrip(line))

\* the indentation check, rejecting where the source has `pass`
IndentCheckStrict(lines, i) ==
    IF i + 1 <= Len(lines)
    THEN IF IndentOf(lines[i + 1]) <= IndentOf(lines[i]) /\ Strip(lines[i + 1]) # <<>>
         THEN IF ~HasSub(Strip(lines[i + 1]), PIPE_SEP)
              THEN Fail("Bad indentation at line {i+1}", i)
              ELSE Ok
         ELSE Ok
    ELSE Ok

\* the indentation check of a `key:` line with an empty value: every path of
\* it ends in `pass`, so the line is accepted whatever the next line is
IndentCheck(lines, i) ==
    IF i + 1 <= Len(lines)
    THEN IF IndentOf(lines[i + 1]) <= IndentOf(lines[i]) /\ Strip(lines[i + 1]) # <<>>
         THEN IF ~HasSub(Strip(lines[i + 1]), PIPE_SEP) THEN Ok ELSE Ok
         ELSE Ok
    ELSE Ok

\* one pass of the while loop over lines[i] (1-based): the verdict it returns,
\* or Ok when it goes on to the next line
LineVerdict(lines, i) ==
    LET line == lines[i]
        stripped == Strip(line)
    IN  IF stripped = <<>> THEN Ok
        ELSE IF HasSub(stripped, PIPE_SEP) /\ ~StartsWith(stripped, <<"-">>) THEN
            LET raw == Split(stripped, PIPE_SEP)
                parts == [n \in 1..Len(raw) |-> Strip(raw[n])]
            IN  IF parts = <<>> \/ \E n \in 1..Len(parts) : parts[n] = <<>>
                THEN Fail(MSG_EMPTY_COLUMNS, i)
                ELSE Ok
        ELSE IF StartsWith(stripped, <<"-">>) THEN
            LET content == Strip(Tail(stripped))
            IN  IF content = <<>> THEN Fail(MSG_EMPTY_ITEM, i) ELSE Ok
        ELSE IF Contains(stripped, ":") THEN
            LET parts == Split1(stripped, <<":">>)
                key == Strip(parts[1])
                val == IF Len(parts) > 1 THEN Strip(parts[2]) ELSE <<>>
            IN  IF key = <<>> THEN Fail(MSG_EMPTY_KEY, i)
                ELSE IF val = <<>> THEN IndentCheck(lines, i)
                ELSE Ok
        ELSE IF StartsWith(stripped, <<"[">>) /\ EndsWith(stripped, <<"]">>) THEN
            LET content == Strip(SubSeq(stripped, 2, Len(stripped) - 1))
                raw == Split(content, <<",">>)
            IN  IF content # <<>> /\ \E n \in 1..Len(raw) : Strip(raw[n]) = <<>>
                THEN Fail(MSG_EMPTY_VALUES, i)
                ELSE Ok
        ELSE Ok

\* the while loop from line i on: the first failing line decides
RECURSIVE ValidateFrom(_, _)
ValidateFrom(lines, i) ==
    IF i > Len(lines) THEN Ok
    ELSE IF ~LineVerdict(lines, i).valid THEN LineVerdict(lines, i)
    ELSE ValidateFrom(lines, i + 1)

validate_toon(toon_data) ==
    IF toon_data = <<>> \/ Strip(toon_data) = <<>> THEN Fail(MSG_EMPTY_DATA, 0)
    ELSE ValidateFrom(Split(toon_data, <<NL>>), 1)

(***************************************************************************)
(* verify_toon_roundtrip: the round-trip verifier.                         *)
(***************************************************************************)
\* re.match(r'^\s*([^:]+):', line).group(1) for a line holding ':' ; <<>>
\* stands for no match (the group of a match is never empty).  The colon the
\* pattern ends at is the line's first; \s* is greedy and gives one character
\* back when only white space precedes that colon.
RegexGroup(line) ==
    LET c == FindFrom(line, <<":">>, 1)
        m == IndentOf(SubSeq(line, 1, c - 1))
    IN  IF c < 2 THEN <<>>
        ELSE IF m < c - 1 THEN SubSeq(line, m + 1, c - 1)
        ELSE SubSeq(line, c - 1, c - 1)

\* the keys the verifier extracts from the text
ToonKeys(toon_data) ==
    LET lines == Split(toon_data, <<NL>>)
    IN  { StripQuotes(Strip(RegexGroup(lines[i]))) :
            i \in { n \in 1..Len(lines) :
                      /\ Contains(lines[n], ":")
                      /\ ~StartsWith(Strip(lines[n]), <<"-">>)
                      /\ RegexGroup(lines[n]) # <<>> } }

verify_toon_roundtrip(json_data, toon_data) ==
    IF Truthy(json_data) /\ Strip(toon_data) = <<>> THEN Fail(MSG_EMPTY_OUTPUT, 0)
    ELSE IF /\ IsDict(json_data)
            /\ Len(json_data.keys) > 0
            /\ ToonKeys(toon_data) = {}
         THEN Fail(MSG_NO_KEYS, 0)
    ELSE validate_toon(toon_data)

(***************************************************************************)
(* The inputs: the JSON trees json.load can hand to the encoder, the texts *)
(* a caller can hand to the validator, the scalars of format_value.        *)
(***************************************************************************)
\* the strings of length <= n over Alphabet
RECURSIVE StringsUpTo(_)
StringsUpTo(n) ==
    IF n = 0 THEN {<<>>}
    ELSE LET shorter == StringsUpTo(n - 1)
         IN  shorter \cup {Append(s, c) : s \in shorter, c \in Alphabet}

ExampleStrings == {<<"a", ":", "b">>, <<"h", "e", "l", "l", "o">>}

Scalars ==
    {Null, Bool(TRUE), Bool(FALSE), Num(0), Num(1), Num(12), Num(-3)}
        \cup {Str(s) : s \in StringsUpTo(MaxStrLen) \cup ExampleStrings}

StrPool ==
    {<<>>, <<"a">>, <<"1">>, <<"a", ":", "b">>, <<"a", NL, "b">>, <<"a", "|", "b">>}

Prims == {Null, Bool(TRUE), Bool(FALSE), Num(0), Num(1)} \cup {Str(s) : s \in StrPool}

Keys == {<<"a">>, <<"a", " ", "b">>, <<>>}

\* the dicts of scalars
FlatDicts ==
    {Obj(<<k>>, <<v>>) : k \in Keys, v \in Prims}
        \cup {Obj(<<<<"a">>, <<"b">>>>, <<v, w>>) : v \in Prims, w \in {Num(1), Str(<<>>)}}

\* [{"a":1,"b":2},{"a":3,"b":4}], [1, 2, 3] and [{"a":[1]}]
ExampleValues ==
    { Arr(<<Obj(<<<<"a">>, <<"b">>>>, <<Num(1), Num(2)>>),
            Obj(<<<<"a">>, <<"b">>>>, <<Num(3), Num(4)>>)>>),
      Arr(<<Num(1), Num(2), Num(3)>>),
      Arr(<<Obj(<<<<"a">>>>, <<Arr(<<Num(1)>>)>>)>>) }

\* the innermost values json.load starts from
Leaves == Prims \cup {Arr(<<>>), Obj(<<>>, <<>>)} \cup FlatDicts \cup ExampleValues

\* the second element put beside a value in a two-element list
Siblings ==
    {Num(1), Str(<<>>),
     Obj(<<<<"a">>, <<"b">>>>, <<Null, Str(<<"a", "|", "b">>)>>)}

\* the second value put beside a value in a two-key dict
PairValues == {Str(<<>>), Arr(<<Num(1)>>)}

LinePool ==
    { <<"a", " ", "|", " ", "|", " ", "b">>,
      <<"a", " ", "|", " ", " ", "|", " ", "b">>,
      <<"a", " ", "|", " ", "b">>,
      <<"-">>,
      <<" ", " ", "-", " ">>,
      <<"-", " ", "i", "t", "e", "m">>,
      <<"k", "e", "y", ":", " ", "v", "a", "l", "u", "e">>,
      <<"k", "e", "y", ":">>,
      <<":", " ", "v">>,
      <<"[", "1", ",", " ", "2", "]">>,
      <<"[", "1", ",", " ", ",", " ", "2", "]">>,
      <<"{", "}">>,
      <<"[", "]">>,
      <<"i", "t", "e", "m">>,
      <<" ", " ">>,
      <<>> }

\* the texts of n lines from LinePool
RECURSIVE TextsOf(_)
TextsOf(n) ==
    IF n = 1 THEN LinePool
    ELSE {t \o <<NL>> \o l : t \in TextsOf(n - 1), l \in LinePool}

Texts == UNION {TextsOf(n) : n \in 1..MaxLines}

\* the values verify is probed with on caller-supplied texts
ProbeValues ==
    Prims \cup {Arr(<<>>), Obj(<<>>, <<>>)} \cup
           {Arr(<<Num(1)>>), Obj(<<<<"a">>>>, <<Num(1)>>),
                   Obj(<<<<"k", "e", "y">>>>, <<Str(<<"v">>)>>)}

NoVerdict == [valid |-> FALSE, message |-> "pending", line |-> 0]

(***************************************************************************)
(* Spec: api_convert's pipeline on one parsed JSON value.                  *)
(***************************************************************************)
Init ==
    /\ value \in Leaves
    /\ depth = 0
    /\ text = <<>>
    /\ verdict = NoVerdict
    /\ pc = "loading"

\* json.load closes a list around the value parsed so far
LoadList ==
    /\ pc = "loading"
    /\ depth < MaxDepth
    /\ \/ value' = Arr(<<value>>)
       \/ \E w \in Siblings : value' = Arr(<<value, w>>)
    /\ depth' = depth + 1
    /\ UNCHANGED <<text, verdict, pc>>

\* json.load closes a dict around the value parsed so far
LoadDict ==
    /\ pc = "loading"
    /\ depth < MaxDepth
    /\ \/ \E k \in Keys : value' = Obj(<<k>>, <<value>>)
       \/ \E w \in PairValues : value' = Obj(<<<<"a">>, <<"b">>>>, <<value, w>>)
    /\ depth' = depth + 1
    /\ UNCHANGED <<text, verdict, pc>>

\* toon_data = json_to_toon(json_data)
Convert ==
    /\ pc = "loading"
    /\ text' = json_to_toon(value, 0)
    /\ pc' = "converted"
    /\ UNCHANGED <<value, depth, verdict>>

\* is_valid, error_msg = verify_toon_roundtrip(json_data, toon_data)
Verify ==
    /\ pc = "converted"
    /\ verdict' = verify_toon_roundtrip(value, text)
    /\ pc' = "verified"
    /\ UNCHANGED <<value, depth, text>>

Next == LoadList \/ LoadDict \/ Convert \/ Verify

Spec == Init /\ [][Next]_vars

(***************************************************************************)
(* SpecText: the validator and the verifier on a text the caller supplies. *)
(***************************************************************************)
InitText ==
    /\ value \in ProbeValues
    /\ depth = 0
    /\ text \in Texts
    /\ verdict = NoVerdict
    /\ pc = "text"

Validate ==
    /\ pc = "text"
    /\ verdict' = validate_toon(text)
    /\ pc' = "validated"
    /\ UNCHANGED <<value, depth, text>>

VerifyText ==
    /\ pc = "text"
    /\ verdict' = verify_toon_roundtrip(value, text)
    /\ pc' = "verified"
    /\ UNCHANGED <<value, depth, text>>

NextText == Validate \/ VerifyText

SpecText == InitText /\ [][NextText]_vars

(***************************************************************************)
(* SpecFormat: format_value on one scalar.                                 *)
(***************************************************************************)
InitFormat ==
    /\ value \in Scalars
    /\ depth = 0
    /\ text = <<>>
    /\ verdict = NoVerdict
    /\ pc = "scalar"

Format ==
    /\ pc = "scalar"
    /\ text' = format_value(value)
    /\ pc' = "formatted"
    /\ UNCHANGED <<value, depth, verdict>>

NextFormat == Format

SpecFormat == InitFormat /\ [][NextFormat]_vars

(***************************************************************************)
(* What the claims speak of.                                               *)
(***************************************************************************)
\* the delimiter characters of the format
Delimiters == {NL, QUOTE, ":", "|", "[", "]", "{", "}"}

HasDelimiter(s) == \E i \in 1..Len(s) : s[i] \in Delimiters

\* the body of a JSON string literal: no raw quote or newline, every
\* backslash followed by an escapable character
RECURSIVE JsonBodyOk(_)
JsonBodyOk(b) ==
    IF b = <<>> THEN TRUE
    ELSE IF Head(b) = BACKSLASH
         THEN /\ Len(b) >= 2
              /\ b[2] \in {QUOTE, BACKSLASH, "n", "t", "r"}
              /\ JsonBodyOk(SubSeq(b, 3, Len(b)))
         ELSE Head(b) \notin {QUOTE, NL} /\ JsonBodyOk(Tail(b))

\* the string a JSON string literal's body denotes
RECURSIVE JsonUnescape(_)
JsonUnescape(b) ==
    IF b = <<>> THEN <<>>
    ELSE IF Head(b) = BACKSLASH /\ Len(b) >= 2
         THEN <<CASE b[2] = "n" -> NL [] b[2] = "t" -> "\t" [] b[2] = "r" -> "\r"
                  [] OTHER -> b[2]>> \o JsonUnescape(SubSeq(b, 3, Len(b)))
         ELSE <<Head(b)>> \o JsonUnescape(Tail(b))

\* t is a JSON-quoted literal of s
IsJsonLiteralOf(t, s) ==
    /\ Len(t) >= 2 /\ Head(t) = QUOTE /\ t[Len(t)] = QUOTE
    /\ JsonBodyOk(SubSeq(t, 2, Len(t) - 1))
    /\ JsonUnescape(SubSeq(t, 2, Len(t) - 1)) = s

\* the strings that are values somewhere in the tree v
RECURSIVE StringValues(_)
StringValues(v) ==
    CASE v.tag = "str" -> {v.s}
      [] v.tag = "arr" -> UNION {StringValues(v.items[i]) : i \in 1..Len(v.items)}
      [] v.tag = "obj" -> UNION {StringValues(v.vals[i]) : i \in 1..Len(v.vals)}
      [] OTHER -> {}

\* no element of a list of dicts has a key its first element lacks (a table
\* lists the first element's keys only), here and below
RECURSIVE KeysKept(_)
KeysKept(v) ==
    CASE v.tag = "arr" ->
            /\ \A i \in 1..Len(v.items) :
                  (v.items[1].tag = "obj" /\ v.items[i].tag = "obj")
                      => \A m \in 1..Len(v.items[i].keys) :
                            \E j \in 1..Len(v.items[1].keys) :
                               v.items[1].keys[j] = v.items[i].keys[m]
            /\ \A i \in 1..Len(v.items) : KeysKept(v.items[i])
      [] v.tag = "obj" -> \A i \in 1..Len(v.vals) : KeysKept(v.vals[i])
      [] OTHER -> TRUE

\* the array qualifies for a table: non-empty, every element an object with
\* at least one key, every value of every element a primitive
TabularEligible(items) ==
    /\ items # <<>>
    /\ \A i \in 1..Len(items) :
         /\ items[i].tag = "obj"
         /\ items[i].keys # <<>>
         /\ \A j \in 1..Len(items[i].vals) :
              items[i].vals[j].tag \in {"null", "bool", "num", "str"}

\* the header of the table of items
HeaderOf(items) == Join(items[1].keys, <<" ", "|", " ">>)

\* the lines of the emitted text
TextLines == Split(text, <<NL>>)

\* the line starts, after its indentation, with `[` or `-`
OpensListOrItem(line) == LStrip(line) # <<>> /\ Head(LStrip(line)) \in {"[", "-"}

\* the value is a dict of one key whose value is a non-empty list or dict
OneBlockDict ==
    /\ value.tag = "obj" /\ Len(value.keys) = 1
    /\ value.vals[1].tag \in {"arr", "obj"}
    /\ Truthy(value.vals[1])

TwoRowExample ==
    Arr(<<Obj(<<<<"a">>, <<"b">>>>, <<Num(1), Num(2)>>),
          Obj(<<<<"a">>, <<"b">>>>, <<Num(3), Num(4)>>)>>)

NestedArrayExample == Arr(<<Obj(<<<<"a">>>>, <<Arr(<<Num(1)>>)>>)>>)

(***************************************************************************)
(* The claims.                                                             *)
(***************************************************************************)

\* C1: for every object with at least one key, verifying the object against
\* its own encoding recovers at least one key and returns valid = true with
\* no message.
C1_ObjectVerifies ==
    (pc = "verified" /\ value.tag = "obj" /\ value.keys # <<>>)
        => (ToonKeys(text) # {} /\ verdict = Ok)

\* C2: the validator returns invalid for any text holding the line
\* `a | | b`, and for any text holding a line that is a bare `-`.
C2_RejectsEmptyColumnAndBareDash ==
    (/\ pc = "validated"
     /\ \E n \in 1..Len(TextLines) :
           TextLines[n] \in {<<"a", " ", "|", " ", "|", " ", "b">>, <<"-">>})
        => ~verdict.valid

\* C3: every string value of the tree that holds a delimiter character
\* appears in the encoder's output as its JSON-quoted, backslash-escaped
\* literal, whatever position it is emitted in (object value, inline-array
\* element, dash-list item, table cell).
C3_DelimitedStringsQuoted ==
    (pc = "converted" /\ KeysKept(value))
        => \A s \in StringValues(value) :
              HasDelimiter(s) => HasSub(text, json_dumps_str(s))

\* C4: the lines of the block that follows a `key:` header line are indented
\* one level (2 spaces) deeper than the header: under a top-level key the
\* first line of the block has exactly 2 leading spaces and no line has fewer.
C4_BlockIndentedUnderKey ==
    (pc = "converted" /\ OneBlockDict)
        => /\ Len(TextLines) >= 2
           /\ IndentOf(TextLines[1]) = 0
           /\ IndentOf(TextLines[2]) = 2
           /\ \A n \in 2..Len(TextLines) : IndentOf(TextLines[n]) >= 2

C6_TableShape ==
    (pc = "converted" /\ value.tag = "arr" /\ TabularEligible(value.items))
        => LET keys == value.items[1].keys
           IN  /\ Len(TextLines) = 1 + Len(value.items)
               /\ TextLines[1] = HeaderOf(value.items)
               /\ \A n \in 2..Len(TextLines) :
                     LET cells == Split(TextLines[n], <<" ", "|", " ">>)
                         item == value.items[n - 1]
                     IN  /\ Len(cells) = Len(keys)
                         /\ \A j \in 1..Len(keys) :
                               (\A m \in 1..Len(item.keys) : item.keys[m] # keys[j])
                                   => cells[j] = <<>>

\* C7: the scalar formatter maps null to `null`, booleans to `true`/`false`,
\* a string without delimiter characters to itself and a string with one to
\* its JSON-quoted literal (`a:b` gives `"a:b"`, `hello` gives `hello`); a
\* result that is not quoted holds no delimiter character.
C7_FormatValue ==
    pc = "formatted"
        => /\ value.tag = "null" => text = <<"n", "u", "l", "l">>
           /\ value = Bool(TRUE) => text = <<"t", "r", "u", "e">>
           /\ value = Bool(FALSE) => text = <<"f", "a", "l", "s", "e">>
           /\ value.tag = "str"
                => IF HasDelimiter(value.s)
                   THEN IsJsonLiteralOf(text, value.s)
                   ELSE text = value.s
           /\ value = Str(<<"a", ":", "b">>) => text = <<QUOTE, "a", ":", "b", QUOTE>>
           /\ value = Str(<<"h", "e", "l", "l", "o">>) => text = <<"h", "e", "l", "l", "o">>
           /\ (text = <<>> \/ Head(text) # QUOTE) => ~HasDelimiter(text)

\* the case of C7: a string with a colon, quoted
C7_Witness ==
    /\ pc = "formatted"
    /\ value = Str(<<"a", ":", "b">>)
    /\ text = <<QUOTE, "a", ":", "b", QUOTE>>

\* C8: for every value, 0, false, null, the empty string and the empty
\* collections included, verifying it against a blank text returns
\* valid = false with the message "TOON output is empty but input had data".
C8_BlankTextMessage ==
    (pc = "verified" /\ Strip(text) = <<>>)
        => verdict = [valid |-> FALSE,
                      message |-> "TOON output is empty but input had data",
                      line |-> 0]

\* C9: the encoder is lossless: a value different from the encoded one has a
\* different encoding.
C9_Lossless ==
    pc = "converted"
        => \A w \in Leaves : w # value => json_to_toon(w, 0) # text

\* a line one of the validator's four rules rejects
RejectedShape(line) ==
    LET t == Strip(line)
        cols == Split(t, <<" ", "|", " ">>)
        elems == Split(Strip(SubSeq(t, 2, Len(t) - 1)), <<",">>)
    IN  \/ /\ Len(cols) > 1
           /\ \E n \in 1..Len(cols) : Strip(cols[n]) = <<>>
        \/ /\ t # <<>> /\ Head(t) = "-"
           /\ Strip(Tail(t)) = <<>>
        \/ /\ \E n \in 1..Len(t) : t[n] = ":"
           /\ Strip(Split(t, <<":">>)[1]) = <<>>
        \/ /\ Len(t) >= 2 /\ Head(t) = "[" /\ t[Len(t)] = "]"
           /\ Strip(SubSeq(t, 2, Len(t) - 1)) # <<>>
           /\ \E n \in 1..Len(elems) : Strip(elems[n]) = <<>>

AcceptedExamples ==
    { <<"-", " ", "i", "t", "e", "m">>,
      <<"k", "e", "y", ":", " ", "v", "a", "l", "u", "e">>,
      <<"[", "1", ",", " ", "2", "]">>,
      <<"{", "}">>,
      <<"[", "]">> }

\* a `key:` header followed by a line that is not more indented
IndentMismatchExample == <<"k", "e", "y", ":", NL, "i", "t", "e", "m">>

\* C10: the validator accepts `- item`, `key: value`, `[1, 2]`, `{}` and
\* `[]`, and returns invalid for a non-blank text only when some line is a
\* ` | `-separated line with an empty part, a `-` line with empty content, a
\* `key:` line with an empty key or an inline `[...]` line with an empty
\* element; no other line shape and no indentation mismatch makes the
\* verdict invalid.
C10_InvalidOnlyForRejectedShapes ==
    pc = "validated"
        => /\ (~verdict.valid /\ Strip(text) # <<>>)
                => \E n \in 1..Len(TextLines) : RejectedShape(TextLines[n])
           /\ text \in AcceptedExamples => verdict = Ok
           /\ text = IndentMismatchExample => verdict = Ok

\* the case of C10: the indentation mismatch, accepted
C10_Witness ==
    /\ pc = "validated"
    /\ text = IndentMismatchExample
    /\ verdict.valid

====
